---------------------------- MODULE Spec2Model ----------------------------
(***************************************************************************)
(* A model of vault-hunter: the Vault client (src/src/vault_client.rs),    *)
(* its token cache (runtime.json) and the export traversal                 *)
(* (src/src/hunter.rs).                                                    *)
(*                                                                         *)
(* Strings whose characters matter (names, paths, patterns, the username)  *)
(* are sequences of one-character strings.  Tokens are opaque strings.     *)
(* An Option<T> is a sequence of length at most one: <<>> is None and      *)
(* <<x>> is Some(x).                                                       *)
(***************************************************************************)
EXTENDS Integers, Sequences, FiniteSets, TLC

\* Number of client operations a behaviour may invoke.
MaxOps == 2

-----------------------------------------------------------------------------
(* Strings *)

UpperChars == <<"A", "B", "C", "E", "M", "W">>
LowerChars == <<"a", "b", "c", "e", "m", "w">>

\* char::to_lowercase on the letters of the model's alphabet.
ToLowerChar(c) ==
    IF \E i \in 1..Len(UpperChars) : UpperChars[i] = c
    THEN LowerChars[CHOOSE i \in 1..Len(UpperChars) : UpperChars[i] = c]
    ELSE c

\* str::to_lowercase
ToLowercase(s) == [i \in 1..Len(s) |-> ToLowerChar(s[i])]

\* str::find(&pat).is_some(): pat occurs in s as a contiguous substring.
Contains(s, pat) ==
    \E k \in 0..(Len(s) - Len(pat)) :
        \A i \in 1..Len(pat) : s[k + i] = pat[i]

\* str::ends_with('/')
EndsWithSlash(s) == Len(s) > 0 /\ s[Len(s)] = "/"

-----------------------------------------------------------------------------
(* Config *)

\* The configured usernames the model draws from (config.toml `username`).
Usernames == { <<"M", "w">>, <<"m", "w">> }

\* Config::username(): the lower-cased username.
ConfigUsername(u) == ToLowercase(u)

\* The expression the request URLs interpolate: the field
\* `self.config.username`, not the method Config::username().
UrlUsername(u) == u

-----------------------------------------------------------------------------
(* Path *)

\* Path::new()
PathNew == <<>>

\* A pushed that writes comp over the last component instead of after it.
PushedOverwritesLast(p, comp) ==
    IF p = <<>> THEN <<comp>> ELSE [p EXCEPT ![Len(p)] = comp]

\* Path::pushed(&self, comp): a clone of the path with comp appended.
Pushed(p, comp) == Append(p, comp)

\* Display for Path: components.join("/")
RECURSIVE PathToString(_)
PathToString(p) ==
    IF Len(p) = 0 THEN <<>>
    ELSE IF Len(p) = 1 THEN p[1]
    ELSE p[1] \o <<"/">> \o PathToString(Tail(p))

-----------------------------------------------------------------------------
(* Token cache: the JSON object stored in runtime.json *)

CacheKeys == {"token", "last_xml_export_time"}

JAbsent == [tag |-> "absent", val |-> ""]
JNull == [tag |-> "null", val |-> ""]
JStr(s) == [tag |-> "str", val |-> s]

EmptyObject == [k \in CacheKeys |-> JAbsent]

FileAbsent == [kind |-> "absent", data |-> EmptyObject]
FileUnreadable == [kind |-> "unreadable", data |-> EmptyObject]
FileCorrupt == [kind |-> "corrupt", data |-> EmptyObject]
FileObject(d) == [kind |-> "object", data |-> d]
\* A file holding valid JSON that is neither an object nor null: an
\* array, a number, a string, a boolean.  (A file holding null reads and
\* writes as the object without keys.)
FileValue == [kind |-> "value", data |-> EmptyObject]

\* Outcomes of File::create followed by to_writer_pretty.
WriteOutcomes == {"ok", "createfail", "writefail"}

\* The JSON value setRuntimeInfo stores under key for Some(v) / None.
StoredValue(value) == IF value # <<>> THEN JStr(value[1]) ELSE JNull

\* Client::setRuntimeInfo(key, value), under write outcome w.
\* Returns the new file, whether the call returned Ok, and whether it
\* panicked instead of returning: data[key] = ... on a decoded value that
\* is neither an object nor null panics before the file is created.
SetRuntimeInfo(f, key, value, w) ==
    IF f.kind \in {"unreadable", "corrupt"}
    THEN [file |-> f, ok |-> FALSE, panic |-> FALSE]
    ELSE IF f.kind = "value"
    THEN [file |-> f, ok |-> FALSE, panic |-> TRUE]
    ELSE LET data == IF f.kind = "absent" THEN EmptyObject ELSE f.data
             newdata == [data EXCEPT ![key] = StoredValue(value)]
         IN  CASE w = "ok" -> [file |-> FileObject(newdata), ok |-> TRUE, panic |-> FALSE]
               [] w = "createfail" -> [file |-> f, ok |-> FALSE, panic |-> FALSE]
               [] OTHER -> [file |-> FileCorrupt, ok |-> FALSE, panic |-> FALSE]

\* What the caller of setRuntimeInfo records of the write.
WriteResult(sr) == IF sr.panic THEN "panic" ELSE IF sr.ok THEN "ok" ELSE "failed"

\* Client::getRuntimeInfo(key): Some(string) when the file holds a JSON
\* object with a string under key, otherwise None (the Err cases).
GetRuntimeInfo(f, key) ==
    IF f.kind = "object" /\ f.data[key].tag = "str"
    THEN <<f.data[key].val>>
    ELSE <<>>

\* runtime_info::getRuntimeInfo(key, config) with a determinable path:
\* Ok(None) when data.get(key) finds nothing (an object without the key,
\* or a value that is no object), Ok(Some) for a string, Err for a
\* missing, unreadable or corrupt file and for any other value.
RuntimeInfoGet(f, key) ==
    IF f.kind = "value" THEN [res |-> "Ok", val |-> <<>>]
    ELSE IF f.kind # "object" THEN [res |-> "Err", val |-> <<>>]
    ELSE CASE f.data[key].tag = "absent" -> [res |-> "Ok", val |-> <<>>]
           [] f.data[key].tag = "str" -> [res |-> "Ok", val |-> <<f.data[key].val>>]
           [] OTHER -> [res |-> "Err", val |-> <<>>]

-----------------------------------------------------------------------------
(* Export marker: last_xml_export_time and the export period *)

\* config::defaultXMLExportPeriod, in seconds.
XmlExportPeriod == 86400

\* Instants Utc::now() returns, in seconds since the epoch.
Times == {0, 43200, 86400}

\* DateTime<Utc>::to_rfc3339
ToRfc3339(n) ==
    CASE n = 0 -> "1970-01-01T00:00:00+00:00"
      [] n = 43200 -> "1970-01-01T12:00:00+00:00"
      [] OTHER -> "1970-01-02T00:00:00+00:00"

\* Strings found under last_xml_export_time.
MarkerStrings ==
    {ToRfc3339(0), ToRfc3339(43200), "1970-01-01T12:00:00Z", "yesterday"}

\* str::parse::<DateTime<Utc>>: the instant of an RFC 3339 string (the
\* Z and +00:00 forms alike), none for anything else.
ParseTime(str) ==
    CASE str = "1970-01-01T00:00:00+00:00" -> <<0>>
      [] str \in {"1970-01-01T12:00:00+00:00", "1970-01-01T12:00:00Z"} -> <<43200>>
      [] str = "1970-01-02T00:00:00+00:00" -> <<86400>>
      [] OTHER -> <<>>

\* An export that never looks at the time elapsed.
ExportAlwaysDue(n, last) == TRUE

\* exportPasswords: the period test.  last is the parsed marker, or none
\* for chrono::MIN_DATETIME, from which every instant is further than the
\* period.
ExportDue(n, last) == last = <<>> \/ ~(n - last[1] < XmlExportPeriod)

\* Outcomes of gpgEncrypt: spawn or stdin failure, non-zero exit, success.
GpgOutcomes == {"ok", "runfail", "exitcode"}

\* What Config::runtimeInfoPath() can name: the runtime.json of the
\* working directory (cache_path set to it), another file (the default,
\* under the configuration directory), or nothing (no cache_path and no
\* configuration directory).
InfoPaths == {"cwd", "other", "none"}

\* The file at runtimeInfoPath(), given ./runtime.json and the other file.
InfoFileAt(ip, f, inf) == IF ip = "cwd" THEN f ELSE inf

\* runtime_info::getRuntimeInfo(key, config)
ConfGetRuntimeInfo(ip, f, inf, key) ==
    IF ip = "none" THEN [res |-> "Err", val |-> <<>>]
    ELSE RuntimeInfoGet(InfoFileAt(ip, f, inf), key)

\* Contents of the file holding the marker that an export run can find.
MarkerFiles ==
    {FileAbsent, FileCorrupt, FileValue} \cup
    {FileObject([EmptyObject EXCEPT !["token"] = e, !["last_xml_export_time"] = m]) :
        e \in {JAbsent, JStr("t1")},
        m \in {JAbsent, JNull} \cup {JStr(x) : x \in MarkerStrings}}

\* Contents of ./runtime.json when it is not the file holding the marker.
TokenFiles == {FileAbsent, FileObject([EmptyObject EXCEPT !["token"] = JStr("t1")])}

-----------------------------------------------------------------------------
(* The remote store: the secret tree and the tokens it accepts *)

\* A tree is the sequence of its leaf paths, in the order the store lists
\* them; every proper prefix of a leaf path is a directory.  The trees are
\* strict hierarchies: no leaf path is a prefix of another.
TreeAB == << << <<"a">>, <<"b">> >>, << <<"c">> >> >>
TreeCase == << << <<"A", "b">> >>, << <<"c">>, <<"a", "B">> >> >>
TreeDeep == << << <<"a">>, <<"b">>, <<"c">> >>, << <<"a">>, <<"B">> >>,
               << <<"b">> >> >>
TreeWide == << << <<"a">>, <<"c">> >>, << <<"b">>, <<"c">> >>,
               << <<"b">>, <<"a">>, <<"b">> >> >>
TreeSib == << << <<"a">>, <<"b">>, <<"c">> >>, << <<"a">>, <<"c">>, <<"b">> >> >>
Trees == {TreeAB, TreeCase, TreeDeep, TreeWide, TreeSib}

Leaves(t) == {t[i] : i \in 1..Len(t)}
Dirs(t) == UNION {{SubSeq(l, 1, k) : k \in 0..(Len(l) - 1)} : l \in Leaves(t)}

IsUnder(leaf, d) == Len(leaf) > Len(d) /\ SubSeq(leaf, 1, Len(d)) = d

\* The raw name the store lists for the child of d on the way to leaf:
\* bare for a leaf, with a trailing separator for a directory.
ChildItem(leaf, d) ==
    IF Len(leaf) = Len(d) + 1 THEN leaf[Len(d) + 1]
    ELSE leaf[Len(d) + 1] \o <<"/">>

InSeq(x, s) == \E i \in 1..Len(s) : s[i] = x

\* data.keys of the LIST response for directory d.
RECURSIVE KeysFrom(_, _, _)
KeysFrom(t, d, acc) ==
    IF t = <<>> THEN acc
    ELSE LET leaf == Head(t)
             acc2 == IF IsUnder(leaf, d) /\ ~InSeq(ChildItem(leaf, d), acc)
                     THEN Append(acc, ChildItem(leaf, d))
                     ELSE acc
         IN  KeysFrom(Tail(t), d, acc2)

ListKeys(t, d) == KeysFrom(t, d, <<>>)

\* The directory a request path string names, as an Option.
DirOfString(t, s) ==
    IF \E d \in Dirs(t) : PathToString(d) = s
    THEN <<CHOOSE d \in Dirs(t) : PathToString(d) = s>>
    ELSE <<>>

IsLeafString(t, s) == \E l \in Leaves(t) : PathToString(l) = s

\* Tokens: what the cache may hold at start and what a login may issue.
CachedTokens == {"", "t1"}
IssuedTokens == {"t2"}

IsValid(bearer, valid) == bearer # <<>> /\ bearer[1] \in valid

\* Answers to GET lookup-self.  "ok" is any JSON body without errors[0].
\* A request without a bearer may be answered by any body.
LookupAnswers(bearer, valid) ==
    {"netfail", "badjson"} \cup
    (IF bearer = <<>> THEN {"errors", "ok"}
     ELSE IF IsValid(bearer, valid) THEN {"ok"} ELSE {"errors"})

\* Answers to POST login.  "notoken" is a JSON body with neither errors[0]
\* nor auth.client_token.
LoginAnswers == {"netfail", "badjson", "errors", "notoken", "ok"}

\* Answers to POST revoke-self: a transport failure or an HTTP status.
\* "304" stands for the statuses outside 2xx, 4xx and 5xx that the
\* transport hands back as a response.
RevokeAnswers(bearer, valid) ==
    {"netfail", "500", "304"} \cup
    (IF IsValid(bearer, valid) THEN {"200"} ELSE {"403"})

\* Answers to LIST: "notlist" is a body without a data.keys array,
\* "baditem" a data.keys array holding a non-string.
ListAnswers(t, s) ==
    {"netfail", "badjson", "errors", "baditem"} \cup
    (IF DirOfString(t, s) # <<>> THEN {"ok"} ELSE {"notlist"})

\* Answers to GET data: "notdict" is a body whose data.data is no
\* string map, "nonobject" a decodable body that is, or whose data member
\* is, neither an object nor null.
GetAnswers(t, s) ==
    {"netfail", "badjson", "errors", "nonobject"} \cup
    (IF IsLeafString(t, s) THEN {"ok"} ELSE {"notdict"})

-----------------------------------------------------------------------------
(* State *)

VARIABLES
    username,        \* Config.username as configured
    tree,            \* the store's secret tree
    serverValid,     \* tokens the store accepts
    file,            \* runtime.json
    token,           \* Client.token : Option<String>
    tokenFromCache,  \* history: the last token assigned was loaded from the cache
    pc,              \* position of the running operation, "idle" between operations
    op,              \* the operation running or last run
    ret,             \* the last return value
    reqs,            \* requests sent by the operation running or last run
    prompts,         \* password prompts shown by that operation
    loaded,          \* what loginUsingCachedToken loaded in that operation
    wrote,           \* history: that operation's cache write: "none", "ok", "failed", "panic"
    token0,          \* history: Client.token when that operation was invoked
    file0,           \* history: runtime.json when that operation was invoked
    snippet,         \* search: the pattern
    to_search,       \* traversal: the frontier
    next_to_search,  \* traversal: the next frontier
    idx,             \* traversal: position in to_search
    items,           \* export: the listing being iterated
    j,               \* export: position in items
    result,          \* search: matches so far
    writer,          \* export: path attributes of the entries written
    rounds,          \* search: passes through the while loop body so far
    now,             \* exportPasswords: Utc::now() of the call, in seconds
    gpg,             \* exportPasswords: how gpgEncrypt ended
    infoPath,        \* Config::runtimeInfoPath(): which file it names
    infoFile,        \* the file at runtimeInfoPath() when not ./runtime.json
    info0,           \* infoFile when the operation was invoked
    nOps             \* operations invoked so far

sessVars == <<token, tokenFromCache, file, serverValid, prompts, loaded, wrote>>
travVars == <<snippet, to_search, next_to_search, idx, items, j, result, writer,
              rounds, now, gpg>>
confVars == <<username, tree, infoPath>>
vars == <<username, tree, serverValid, file, token, tokenFromCache, pc, op, ret,
          reqs, prompts, loaded, wrote, snippet, to_search, next_to_search, idx,
          items, j, result, writer, rounds, now, gpg, nOps, token0, file0,
          infoPath, infoFile, info0>>

\* What only the invocation of an operation changes.
callVars == <<op, nOps, token0, file0, info0>>

\* A return value.  paths is search's Ok value, xml the export's, entries
\* list's; raw is the data.keys list's response carried.
NoRet == [op |-> "none", res |-> "none", err |-> "", paths |-> <<>>, xml |-> <<>>,
          entries |-> <<>>, raw |-> <<>>]
RetOk(o) == [NoRet EXCEPT !.op = o, !.res = "Ok"]
RetErr(o, e) == [NoRet EXCEPT !.op = o, !.res = "Err", !.err = e]

\* A request as the transport sends it.
Req(ep, user, bearer, path) ==
    [ep |-> ep, user |-> user, bearer |-> bearer, path |-> path, ans |-> "pending"]

\* Client::buildReq: the bearer credential is the token when there is one.
BuildReq(ep, user, tok, path) == Req(ep, user, tok, path)

Answered(rs, a) == [rs EXCEPT ![Len(rs)].ans = a]

InitFiles ==
    {FileAbsent, FileUnreadable, FileCorrupt, FileValue} \cup
    {FileObject([EmptyObject EXCEPT !["token"] = e]) :
        e \in {JAbsent, JNull} \cup {JStr(t) : t \in CachedTokens}}

\* The state after Client::new, with the runtime file one of files.
InitWith(files) ==
    /\ username \in Usernames
    /\ tree \in Trees
    /\ serverValid \in {{}, {"t1"}}
    /\ file \in files
    /\ token = <<>>
    /\ tokenFromCache = FALSE
    /\ pc = "idle"
    /\ op = "none"
    /\ ret = NoRet
    /\ reqs = <<>>
    /\ prompts = 0
    /\ loaded = <<>>
    /\ wrote = "none"
    /\ snippet = <<>>
    /\ to_search = <<>>
    /\ next_to_search = <<>>
    /\ idx = 1
    /\ items = <<>>
    /\ j = 1
    /\ result = <<>>
    /\ writer = <<>>
    /\ rounds = 0
    /\ now = 0
    /\ gpg = "none"
    /\ nOps = 0
    /\ token0 = <<>>
    /\ file0 = file

\* The operations of Spec use ./runtime.json only: the file at
\* runtimeInfoPath() is another one, never read or written.
Init ==
    /\ InitWith(InitFiles)
    /\ infoPath = "other"
    /\ infoFile = FileAbsent
    /\ info0 = infoFile

\* An operation is invoked: the per-operation history starts afresh.
Begin(o) ==
    /\ pc = "idle"
    /\ nOps < MaxOps
    /\ nOps' = nOps + 1
    /\ op' = o
    /\ wrote' = "none"
    /\ token0' = token
    /\ file0' = file
    /\ info0' = infoFile

\* The running operation returns r.
Return(r) ==
    /\ pc' = "idle"
    /\ ret' = r

\* The running operation panics: the process ends, nothing is returned.
Panic ==
    /\ pc' = "panic"
    /\ ret' = NoRet

\* An operation ends on the result sr of its closing setRuntimeInfo.
ReturnWrite(o, sr) ==
    IF sr.panic THEN Panic
    ELSE Return(IF sr.ok THEN RetOk(o) ELSE RetErr(o, "RuntimeError"))

-----------------------------------------------------------------------------
(* Session: login, logout *)

\* A login that goes on to lookupToken() whatever the cache load gave.
LoginAlwaysLooksUp(loadOk) == "lookup"

\* Client::login after loginUsingCachedToken(): return Ok at once when the
\* load succeeded, otherwise go on to lookupToken().
LoginAfterCache(loadOk) == IF loadOk THEN "return" ELSE "lookup"

\* Client::lookupToken().is_ok(): the body decoded and carries no errors[0].
LookupTokenOk(a) == a = "ok"

\* A loginNew that keeps the token in memory only.
LoginNewUncached(f, tok, w) == [file |-> f, ok |-> TRUE, panic |-> FALSE]

\* Client::loginNew: the cache write of the token just received.
LoginNewCache(f, tok, w) == SetRuntimeInfo(f, "token", tok, w)

\* A logout that treats 403 like every other error status.
LogoutStatusStrict(a) == a = "200"

\* Response::error_for_status: Err exactly for the 4xx and 5xx statuses.
IsErrorStatus(a) == a \in {"403", "500"}

\* Client::logout: the statuses after which the token is cleared: 403, or
\* one error_for_status() accepts.
LogoutStatusAccepted(a) == a = "403" \/ ~IsErrorStatus(a)

\* Client::logout: the cache write that clears the token entry.
LogoutCache(f, w) == SetRuntimeInfo(f, "token", <<>>, w)

\* An error mapping that reports every failure as a RuntimeError.
ErrKindAllRuntime(a) == "RuntimeError"

\* The error kind a failed exchange maps to (the map_err calls).
ErrKind(a) ==
    CASE a = "netfail" -> "HTTPError"
      [] a = "errors" -> "VaultError"
      [] a = "500" -> "VaultError"
      [] OTHER -> "RuntimeError"

\* Client::loginUsingCachedToken, called on its own.
LoginUsingCachedToken ==
    /\ Begin("loginUsingCachedToken")
    /\ LET r == GetRuntimeInfo(file, "token")
       IN  /\ loaded' = r
           /\ token' = IF r # <<>> THEN r ELSE token
           /\ tokenFromCache' = IF r # <<>> THEN TRUE ELSE tokenFromCache
           /\ Return(IF r # <<>> THEN RetOk("loginUsingCachedToken")
                     ELSE RetErr("loginUsingCachedToken", "RuntimeError"))
    /\ reqs' = <<>>
    /\ prompts' = 0
    /\ UNCHANGED <<file, serverValid, travVars, confVars, infoFile>>

\* Client::login up to its first suspension point.
Login ==
    /\ Begin("login")
    /\ LET r == GetRuntimeInfo(file, "token")
           tok == IF r # <<>> THEN r ELSE token
       IN  /\ loaded' = r
           /\ token' = tok
           /\ tokenFromCache' = IF r # <<>> THEN TRUE ELSE tokenFromCache
           /\ IF LoginAfterCache(r # <<>>) = "return"
              THEN /\ reqs' = <<>>
                   /\ Return(RetOk("login"))
              ELSE /\ reqs' = <<BuildReq("lookup", <<>>, tok, <<>>)>>
                   /\ pc' = "login_lookup"
                   /\ ret' = NoRet
    /\ prompts' = 0
    /\ UNCHANGED <<file, serverValid, travVars, confVars, infoFile>>

\* Client::login: the lookup-self exchange completes.
LookupResponse ==
    /\ pc = "login_lookup"
    /\ \E a \in LookupAnswers(reqs[Len(reqs)].bearer, serverValid) :
        /\ reqs' = Answered(reqs, a)
        /\ IF LookupTokenOk(a)
           THEN Return(RetOk("login"))
           ELSE pc' = "prompt" /\ ret' = ret
    /\ UNCHANGED <<sessVars, travVars, confVars, infoFile, callVars>>

\* Client::loginPromptPassword, called on its own.
LoginPromptPassword ==
    /\ Begin("loginPromptPassword")
    /\ pc' = "prompt"
    /\ ret' = NoRet
    /\ reqs' = <<>>
    /\ prompts' = 0
    /\ loaded' = <<>>
    /\ UNCHANGED <<token, tokenFromCache, file, serverValid, travVars, confVars, infoFile>>

\* Client::loginPromptPassword: the prompt, then loginNew's request.
\* loginNew posts with the bare client: no bearer credential.
PromptPassword ==
    /\ pc = "prompt"
    /\ prompts' = prompts + 1
    /\ \E read \in BOOLEAN :
        IF read
        THEN /\ reqs' = Append(reqs, Req("login", UrlUsername(username), <<>>, <<>>))
             /\ pc' = "login_new"
             /\ ret' = ret
        ELSE /\ reqs' = reqs
             /\ Return(RetErr(op, "RuntimeError"))
    /\ UNCHANGED <<token, tokenFromCache, file, serverValid, loaded, wrote, travVars,
                   confVars, infoFile, callVars>>

\* Client::loginNew: the login exchange completes.
LoginResponse ==
    /\ pc = "login_new"
    /\ \E a \in LoginAnswers, t \in IssuedTokens, w \in WriteOutcomes :
        /\ reqs' = Answered(reqs, a)
        /\ CASE a = "ok" ->
                 LET sr == LoginNewCache(file, <<t>>, w)
                 IN  /\ token' = <<t>>
                     /\ tokenFromCache' = FALSE
                     /\ serverValid' = serverValid \cup {t}
                     /\ file' = sr.file
                     /\ wrote' = WriteResult(sr)
                     /\ ReturnWrite(op, sr)
             [] a = "notoken" ->
                 \* token = None, then unwrap() panics
                 /\ token' = <<>>
                 /\ pc' = "panic"
                 /\ UNCHANGED <<tokenFromCache, serverValid, file, wrote, ret>>
             [] OTHER ->
                 /\ Return(RetErr(op, ErrKind(a)))
                 /\ UNCHANGED <<token, tokenFromCache, serverValid, file, wrote>>
    /\ UNCHANGED <<prompts, loaded, travVars, confVars, infoFile, callVars>>

\* Client::logout up to its suspension point.
Logout ==
    /\ Begin("logout")
    /\ IF token = <<>>
       THEN /\ reqs' = <<>>
            /\ Return(RetOk("logout"))
       ELSE /\ reqs' = <<BuildReq("revoke", <<>>, token, <<>>)>>
            /\ pc' = "logout_revoke"
            /\ ret' = NoRet
    /\ prompts' = 0
    /\ loaded' = <<>>
    /\ UNCHANGED <<token, tokenFromCache, file, serverValid, travVars, confVars, infoFile>>

\* Client::logout: the revoke-self exchange completes.
RevokeResponse ==
    /\ pc = "logout_revoke"
    /\ \E a \in RevokeAnswers(reqs[Len(reqs)].bearer, serverValid), w \in WriteOutcomes :
        /\ reqs' = Answered(reqs, a)
        /\ IF a # "netfail" /\ LogoutStatusAccepted(a)
           THEN LET sr == LogoutCache(file, w)
                IN  /\ token' = <<>>
                    /\ file' = sr.file
                    /\ wrote' = WriteResult(sr)
                    /\ serverValid' = IF a = "200" THEN serverValid \ {token[1]}
                                      ELSE serverValid
                    /\ ReturnWrite("logout", sr)
           ELSE /\ Return(RetErr("logout", ErrKind(a)))
                /\ UNCHANGED <<token, file, serverValid, wrote>>
    /\ UNCHANGED <<tokenFromCache, prompts, loaded, travVars, confVars, infoFile, callVars>>

-----------------------------------------------------------------------------
(* Navigator: list, search, export traversal *)

\* The patterns search is called with.
Patterns == { <<>>, <<"a">>, <<"b">>, <<"B">>, <<"a", "b">> }

\* A list that strips every trailing separator of a directory name.
RECURSIVE StripSlashes(_)
StripSlashes(item) ==
    IF EndsWithSlash(item) THEN StripSlashes(SubSeq(item, 1, Len(item) - 1))
    ELSE item

ClassifyStripsAll(item) ==
    IF EndsWithSlash(item)
    THEN [tag |-> "Dir", name |-> StripSlashes(item)]
    ELSE [tag |-> "Key", name |-> item]

\* Client::list: one raw name becomes Dir (trailing separator stripped) or Key.
Classify(item) ==
    IF EndsWithSlash(item)
    THEN [tag |-> "Dir", name |-> SubSeq(item, 1, Len(item) - 1)]
    ELSE [tag |-> "Key", name |-> item]

\* Client::list: the Ok value for a response whose data.keys is keys.
ListParse(keys) == [i \in 1..Len(keys) |-> Classify(keys[i])]

\* Client::search: the test a Key's name must pass.
Matches(name, sn) == Contains(ToLowercase(name), sn)

\* A match arm that also queues a Key for listing.
SearchItemQueuesKeys(acc, path, item, sn) ==
    [result |-> IF item.tag = "Key" /\ Matches(item.name, sn)
                THEN Append(acc.result, Pushed(path, item.name))
                ELSE acc.result,
     next |-> Append(acc.next, Pushed(path, item.name))]

\* The match arm of a search that matches on the full path.
SearchItemMatchesPath(acc, path, item, sn) ==
    IF item.tag = "Key"
    THEN IF Matches(PathToString(Pushed(path, item.name)), sn)
         THEN [acc EXCEPT !.result = Append(@, Pushed(path, item.name))]
         ELSE acc
    ELSE [acc EXCEPT !.next = Append(@, Pushed(path, item.name))]

\* Client::search: the match arm for one listed item of path.
SearchItem(acc, path, item, sn) ==
    IF item.tag = "Key"
    THEN IF Matches(item.name, sn)
         THEN [acc EXCEPT !.result = Append(@, Pushed(path, item.name))]
         ELSE acc
    ELSE [acc EXCEPT !.next = Append(@, Pushed(path, item.name))]

\* Client::search: the inner for loop over one listing.
RECURSIVE SearchItems(_, _, _, _)
SearchItems(acc, path, its, sn) ==
    IF its = <<>> THEN acc
    ELSE SearchItems(SearchItem(acc, path, Head(its), sn), path, Tail(its), sn)

\* A loop that stops after the first frontier.
AfterPathOneLevel(ts, nx, i) ==
    IF i + 1 <= Len(ts)
    THEN [to_search |-> ts, next |-> nx, idx |-> i + 1, done |-> FALSE]
    ELSE [to_search |-> nx, next |-> <<>>, idx |-> 1, done |-> TRUE]

\* A loop that is left as soon as the next frontier is empty after a path.
AfterPathStopsEarly(ts, nx, i) ==
    IF nx = <<>>
    THEN [to_search |-> nx, next |-> <<>>, idx |-> 1, done |-> TRUE]
    ELSE IF i + 1 <= Len(ts)
    THEN [to_search |-> ts, next |-> nx, idx |-> i + 1, done |-> FALSE]
    ELSE [to_search |-> nx, next |-> <<>>, idx |-> 1, done |-> FALSE]

\* End of one path of the frontier: the next path, or the frontier swap
\* and the while test.
AfterPath(ts, nx, i) ==
    IF i + 1 <= Len(ts)
    THEN [to_search |-> ts, next |-> nx, idx |-> i + 1, done |-> FALSE]
    ELSE [to_search |-> nx, next |-> <<>>, idx |-> 1, done |-> nx = <<>>]

\* An export that fetches a Key by its bare name.
ExportBareName(path, name) == <<name>>

\* hunter::passwordsToXML: the path of a Key entry handed to exportEntry.
ExportFullPath(path, name) == Pushed(path, name)

\* The traversal's locals once the operation has returned.
LocalsDropped ==
    /\ to_search' = <<>>
    /\ next_to_search' = <<>>
    /\ idx' = 1
    /\ items' = <<>>
    /\ j' = 1
    /\ result' = <<>>
    /\ writer' = <<>>

\* The '?' on the result of list / exportEntry inside a traversal: any
\* answer but a well-formed one is an Err and returns from the function.
Propagates(a) == a # "ok"

\* Client::get: the error kind of a failed exchange.  An errors payload is
\* not looked at: it fails the decoding of data.data.
GetErrKind(a) == IF a = "netfail" THEN "HTTPError" ELSE "RuntimeError"

\* Client::get: res["data"]["data"].take() indexes the decoded body
\* mutably, which panics on a value that is neither an object nor null.
GetPanics(a) == a = "nonobject"

\* Longest data.keys array a standalone list is answered with.
MaxKeys == 2

\* The raw names such an array draws from, and the arrays.
SyntheticNames == { <<>>, <<"a">>, <<"a", "/">>, <<"/">>, <<"a", "/", "/">> }
SyntheticKeys == UNION {[1..n -> SyntheticNames] : n \in 0..MaxKeys}

\* The path arguments of standalone list and get calls.
ListPaths == { <<>>, <<"a">> }
GetPaths == { <<"c">>, <<"a", "/", "b">>, <<"a">> }

\* The data.keys arrays the store answers a list of each path with.
StoreKeys ==
    [s \in ListPaths |->
        IF DirOfString(tree, s) # <<>>
        THEN {ListKeys(tree, DirOfString(tree, s)[1])}
        ELSE {}]

\* Any data.keys array, whatever the path.
AnyKeys == [s \in ListPaths |-> SyntheticKeys]

\* Client::list(path) up to its suspension point: the request is sent.
List ==
    /\ Begin("list")
    /\ \E s \in ListPaths :
        reqs' = <<BuildReq("list", UrlUsername(username), token, s)>>
    /\ pc' = "list_wait"
    /\ ret' = NoRet
    /\ prompts' = 0
    /\ loaded' = <<>>
    /\ UNCHANGED <<token, tokenFromCache, file, serverValid, travVars, confVars, infoFile>>

\* Client::list: the exchange completes, where an Ok answer to path s
\* carries one of kb[s].
ListResponseFrom(kb) ==
    /\ pc = "list_wait"
    /\ \E a \in {"netfail", "badjson", "errors", "notlist", "baditem", "ok"} :
        /\ reqs' = Answered(reqs, a)
        /\ IF a = "ok"
           THEN \E ks \in kb[reqs[Len(reqs)].path] :
                  Return([RetOk("list") EXCEPT !.entries = ListParse(ks), !.raw = ks])
           ELSE Return(RetErr("list", ErrKind(a)))
    /\ UNCHANGED <<sessVars, travVars, confVars, infoFile, callVars>>

\* Client::list answered by the store.
ListResponse == ListResponseFrom(StoreKeys)

\* Client::list answered by any listing response.
ListSyntheticResponse == ListResponseFrom(AnyKeys)

\* Client::get(path) up to its suspension point: the request is sent.
Get ==
    /\ Begin("get")
    /\ \E s \in GetPaths :
        reqs' = <<BuildReq("get", UrlUsername(username), token, s)>>
    /\ pc' = "get_wait"
    /\ ret' = NoRet
    /\ prompts' = 0
    /\ loaded' = <<>>
    /\ UNCHANGED <<token, tokenFromCache, file, serverValid, travVars, confVars, infoFile>>

\* Client::get: the exchange completes.
GetResponse ==
    /\ pc = "get_wait"
    /\ \E a \in GetAnswers(tree, reqs[Len(reqs)].path) :
        /\ reqs' = Answered(reqs, a)
        /\ IF GetPanics(a) THEN Panic
           ELSE Return(IF a = "ok" THEN RetOk("get") ELSE RetErr("get", GetErrKind(a)))
    /\ UNCHANGED <<sessVars, travVars, confVars, infoFile, callVars>>

\* Client::search is called with pattern sn.
Search ==
    /\ Begin("search")
    /\ \E sn \in Patterns : snippet' = sn
    /\ result' = <<>>
    /\ to_search' = <<PathNew>>
    /\ next_to_search' = <<>>
    /\ idx' = 1
    /\ pc' = "search_list"
    /\ ret' = NoRet
    /\ reqs' = <<>>
    /\ prompts' = 0
    /\ loaded' = <<>>
    /\ rounds' = 1
    /\ UNCHANGED <<token, tokenFromCache, file, serverValid, items, j, writer, now,
                   gpg, confVars, infoFile>>

\* Client::search: the list call for the path at idx, up to its
\* suspension point.
SearchList ==
    /\ pc = "search_list"
    /\ reqs' = Append(reqs, BuildReq("list", UrlUsername(username), token,
                                     PathToString(to_search[idx])))
    /\ pc' = "search_wait"
    /\ UNCHANGED <<ret, sessVars, travVars, confVars, infoFile, callVars>>

\* Client::search: the list exchange completes, then the loop body over
\* its result.
SearchListResponse ==
    /\ pc = "search_wait"
    /\ LET path == to_search[idx]
           s == PathToString(path)
       IN  \E a \in ListAnswers(tree, s) :
             /\ reqs' = Answered(reqs, a)
             /\ IF Propagates(a)
                THEN /\ Return(RetErr("search", ErrKind(a)))
                     /\ LocalsDropped
                     /\ rounds' = rounds
                ELSE \E its \in {ListParse(ListKeys(tree, DirOfString(tree, s)[1]))} :
                     \E acc \in {SearchItems([result |-> result, next |-> next_to_search],
                                            path, its, snippet)} :
                     \E nxt \in {AfterPath(to_search, acc.next, idx)} :
                         IF nxt.done
                         THEN /\ Return([RetOk("search") EXCEPT !.paths = acc.result])
                              /\ LocalsDropped
                              /\ rounds' = rounds
                         ELSE /\ rounds' = IF nxt.idx = 1 THEN rounds + 1 ELSE rounds
                              /\ to_search' = nxt.to_search
                              /\ next_to_search' = nxt.next
                              /\ idx' = nxt.idx
                              /\ result' = acc.result
                              /\ pc' = "search_list"
                              /\ UNCHANGED <<ret, items, j, writer>>
    /\ UNCHANGED <<sessVars, snippet, now, gpg, confVars, infoFile, callVars>>

\* hunter::passwordsToXML is called.
Export ==
    /\ Begin("export")
    /\ to_search' = <<PathNew>>
    /\ next_to_search' = <<>>
    /\ idx' = 1
    /\ items' = <<>>
    /\ j' = 1
    /\ writer' = <<>>
    /\ pc' = "export_list"
    /\ ret' = NoRet
    /\ reqs' = <<>>
    /\ prompts' = 0
    /\ loaded' = <<>>
    /\ UNCHANGED <<token, tokenFromCache, file, serverValid, snippet, result, rounds,
                   now, gpg, confVars, infoFile>>

\* hunter::passwordsToXML: what follows the last item of a listing, with
\* writer content wr and next frontier nx.
ExportAfterItems(wr, nx) ==
    LET nxt == AfterPath(to_search, nx, idx)
    IN  IF nxt.done
        THEN IF op = "exportPasswords"
             THEN /\ pc' = "export_gpg"
                  /\ ret' = ret
                  /\ to_search' = <<>>
                  /\ next_to_search' = <<>>
                  /\ idx' = 1
                  /\ items' = <<>>
                  /\ j' = 1
                  /\ writer' = wr
                  /\ result' = result
             ELSE /\ Return([RetOk("export") EXCEPT !.xml = wr])
                  /\ LocalsDropped
        ELSE /\ pc' = "export_list"
             /\ ret' = ret
             /\ to_search' = nxt.to_search
             /\ next_to_search' = nxt.next
             /\ idx' = nxt.idx
             /\ items' = <<>>
             /\ j' = 1
             /\ writer' = wr
             /\ result' = result

\* hunter::passwordsToXML: the step to the next item of the listing.
ExportNextItem(wr, nx) ==
    IF j < Len(items)
    THEN /\ j' = j + 1
         /\ writer' = wr
         /\ next_to_search' = nx
         /\ pc' = "export_item"
         /\ UNCHANGED <<ret, to_search, idx, items, result>>
    ELSE ExportAfterItems(wr, nx)

\* hunter::passwordsToXML: the list call for the path at idx, up to its
\* suspension point.
ExportList ==
    /\ pc = "export_list"
    /\ reqs' = Append(reqs, BuildReq("list", UrlUsername(username), token,
                                     PathToString(to_search[idx])))
    /\ pc' = "export_list_wait"
    /\ UNCHANGED <<ret, sessVars, travVars, confVars, infoFile, callVars>>

\* hunter::passwordsToXML: the list exchange completes.
ExportListResponse ==
    /\ pc = "export_list_wait"
    /\ LET s == PathToString(to_search[idx])
       IN  \E a \in ListAnswers(tree, s) :
             /\ reqs' = Answered(reqs, a)
             /\ IF Propagates(a)
                THEN /\ Return(RetErr(op, ErrKind(a)))
                     /\ LocalsDropped
                ELSE LET its == ListParse(ListKeys(tree, DirOfString(tree, s)[1]))
                     IN  IF its = <<>>
                         THEN ExportAfterItems(writer, next_to_search)
                         ELSE /\ items' = its
                              /\ j' = 1
                              /\ pc' = "export_item"
                              /\ UNCHANGED <<ret, to_search, next_to_search, idx,
                                             result, writer>>
    /\ UNCHANGED <<sessVars, snippet, rounds, now, gpg, confVars, infoFile, callVars>>

\* hunter::passwordsToXML: the match arm for one listed item.  A Dir is
\* queued; for a Key exportEntry sends the get request for its path and
\* is suspended.
ExportItem ==
    /\ pc = "export_item"
    /\ LET path == to_search[idx]
           it == items[j]
       IN  IF it.tag = "Dir"
           THEN /\ reqs' = reqs
                /\ ExportNextItem(writer, Append(next_to_search, Pushed(path, it.name)))
           ELSE /\ reqs' = Append(reqs, BuildReq("get", UrlUsername(username), token,
                                   PathToString(ExportFullPath(path, it.name))))
                /\ pc' = "export_get_wait"
                /\ UNCHANGED <<ret, to_search, next_to_search, idx, items, j, result,
                               writer>>
    /\ UNCHANGED <<sessVars, snippet, rounds, now, gpg, confVars, infoFile, callVars>>

\* hunter::exportEntry: the get exchange completes and the entry is
\* written with its path.
ExportGetResponse ==
    /\ pc = "export_get_wait"
    /\ LET s == reqs[Len(reqs)].path
       IN  \E a \in GetAnswers(tree, s) :
             /\ reqs' = Answered(reqs, a)
             /\ IF GetPanics(a)
                THEN /\ Panic
                     /\ LocalsDropped
                ELSE IF Propagates(a)
                THEN /\ Return(RetErr(op, GetErrKind(a)))
                     /\ LocalsDropped
                ELSE ExportNextItem(Append(writer, s), next_to_search)
    /\ UNCHANGED <<sessVars, snippet, rounds, now, gpg, confVars, infoFile, callVars>>

\* hunter::exportPasswords, as main calls it after a successful login(),
\* up to its first suspension point: the marker is read and parsed, the
\* period tested, the GPG user looked up, and the traversal started.
ExportPasswords ==
    /\ ret.op = "login"
    /\ ret.res = "Ok"
    /\ Begin("exportPasswords")
    /\ \E n \in Times, gpg_user \in BOOLEAN :
        LET g == ConfGetRuntimeInfo(infoPath, file, infoFile, "last_xml_export_time")
            last == IF g.val = <<>> THEN <<>> ELSE ParseTime(g.val[1])
            walk == g.res = "Ok" /\ (g.val # <<>> => last # <<>>)
                      /\ ExportDue(n, last) /\ gpg_user
        IN  /\ now' = n
            /\ to_search' = IF walk THEN <<PathNew>> ELSE <<>>
            /\ IF g.res = "Err"
               THEN Return(RetErr("exportPasswords", "RuntimeError"))
               ELSE IF g.val # <<>> /\ last = <<>>
               THEN \* t_str.parse().unwrap() panics
                    pc' = "panic" /\ ret' = NoRet
               ELSE IF ~ExportDue(n, last)
               THEN Return(RetOk("exportPasswords"))
               ELSE IF ~gpg_user
               THEN Return(RetErr("exportPasswords", "RuntimeError"))
               ELSE pc' = "export_list" /\ ret' = NoRet
    /\ next_to_search' = <<>>
    /\ idx' = 1
    /\ items' = <<>>
    /\ j' = 1
    /\ writer' = <<>>
    /\ gpg' = "none"
    /\ reqs' = <<>>
    /\ prompts' = 0
    /\ loaded' = <<>>
    /\ UNCHANGED <<token, tokenFromCache, file, serverValid, snippet, result, rounds,
                   confVars, infoFile>>

\* hunter::exportPasswords: gpgEncrypt of the XML, then the marker write
\* into the file at runtimeInfoPath().
ExportGpg ==
    /\ pc = "export_gpg"
    /\ \E g \in GpgOutcomes, w \in WriteOutcomes :
        /\ gpg' = g
        /\ IF g = "ok"
           THEN LET sr == SetRuntimeInfo(InfoFileAt(infoPath, file, infoFile),
                                        "last_xml_export_time",
                                        <<ToRfc3339(now)>>, w)
                IN  /\ file' = IF infoPath = "cwd" THEN sr.file ELSE file
                    /\ infoFile' = IF infoPath = "cwd" THEN infoFile ELSE sr.file
                    /\ wrote' = WriteResult(sr)
                    /\ ReturnWrite("exportPasswords", sr)
           ELSE /\ Return(RetErr("exportPasswords", "RuntimeError"))
                /\ UNCHANGED <<file, infoFile, wrote>>
    /\ LocalsDropped
    /\ UNCHANGED <<token, tokenFromCache, serverValid, prompts, loaded, reqs, snippet,
                   rounds, now, confVars, callVars>>

-----------------------------------------------------------------------------
(* Specification *)

Next ==
    \/ LoginUsingCachedToken
    \/ Login
    \/ LookupResponse
    \/ LoginPromptPassword
    \/ PromptPassword
    \/ LoginResponse
    \/ Logout
    \/ RevokeResponse
    \/ List
    \/ ListResponse
    \/ Get
    \/ GetResponse
    \/ Search
    \/ SearchList
    \/ SearchListResponse
    \/ Export
    \/ ExportList
    \/ ExportListResponse
    \/ ExportItem
    \/ ExportGetResponse

Spec == Init /\ [][Next]_vars

\* list alone, fed any listing response, on one store and one cache.
InitList ==
    /\ Init
    /\ tree = TreeAB
    /\ file = FileAbsent
    /\ serverValid = {}

NextList ==
    \/ List
    \/ ListSyntheticResponse

SpecList == InitList /\ [][NextList]_vars

\* search alone.  A search that can send its next request eventually does
\* (the runtime polls the future until it completes), and a request sent
\* is eventually answered or fails.
NextSearch ==
    \/ Search
    \/ SearchList
    \/ SearchListResponse

\* search does not read the cache, nor does the store look at the token
\* of a list request: one cache and one set of valid tokens suffice.
InitSearch ==
    /\ Init
    /\ file = FileAbsent
    /\ serverValid = {}

SpecSearch ==
    /\ InitSearch
    /\ [][NextSearch]_vars
    /\ WF_vars(SearchList)
    /\ WF_vars(SearchListResponse)

\* The key lookup of main: login(), then exportPasswords.
InitExport ==
    /\ \/ /\ InitWith(MarkerFiles)
          /\ infoPath = "cwd"
          /\ infoFile = FileAbsent
       \/ /\ InitWith(TokenFiles)
          /\ infoPath = "other"
          /\ infoFile \in MarkerFiles
       \/ /\ InitWith(TokenFiles)
          /\ infoPath = "none"
          /\ infoFile = FileAbsent
    /\ info0 = infoFile

NextExport ==
    \/ Login
    \/ LookupResponse
    \/ PromptPassword
    \/ LoginResponse
    \/ ExportPasswords
    \/ ExportList
    \/ ExportListResponse
    \/ ExportItem
    \/ ExportGetResponse
    \/ ExportGpg

SpecExport == InitExport /\ [][NextExport]_vars

-----------------------------------------------------------------------------
(* Properties *)

Returned(o) == pc = "idle" /\ ret.op = o
ReturnedOk(o) == Returned(o) /\ ret.res = "Ok"

ReqsTo(ep) == {i \in 1..Len(reqs) : reqs[i].ep = ep}

\* The last name of a path.
LeafName(p) == p[Len(p)]

\* loginUsingCachedToken loaded a non-empty token in the operation.
LoadedToken == loaded # <<>> /\ loaded[1] # ""

\* The cache's token entry agrees with the in-memory token tok.
CacheHolds(tok) == GetRuntimeInfo(file, "token") = tok

\* The login just returned found no token in the cache and its lookup-self
\* call failed.
LookupFailedNoCache ==
    /\ Returned("login")
    /\ loaded = <<>>
    /\ Len(reqs) >= 1
    /\ reqs[1].ep = "lookup"
    /\ reqs[1].ans \in {"netfail", "badjson", "errors"}

\* The logout just returned was for a token loaded from the cache, and
\* revoke-self answered 403.
LogoutCached403 ==
    /\ Returned("logout")
    /\ tokenFromCache
    /\ Len(reqs) = 1
    /\ reqs[1].ans = "403"

\* C1: login() never returns Ok holding a token loaded from the cache unless
\* a lookup-self request bearing that token was sent and answered
\* successfully during that login().
C1_CachedTokenValidated ==
    (ReturnedOk("login") /\ LoadedToken /\ token = loaded)
        => \E i \in ReqsTo("lookup") : reqs[i].bearer = loaded /\ reqs[i].ans = "ok"

\* C2: when the token loaded from the cache is one the server rejects,
\* login() falls back to the interactive login (one prompt, one login
\* request) and never returns Ok still holding that token.
C2_RejectedTokenFallsBack ==
    (Returned("login") /\ LoadedToken /\ ~IsValid(loaded, serverValid))
        => /\ prompts = 1
           /\ Cardinality(ReqsTo("login")) = 1
           /\ ~(ret.res = "Ok" /\ token = loaded)

\* C3: given a cached token the server accepts, login() returns Ok holding
\* exactly that token, with no password prompt and no request to the login
\* endpoint.
C3_ValidCachedTokenNoPrompt ==
    (Returned("login") /\ loaded # <<>> /\ IsValid(loaded, serverValid))
        => /\ ret.res = "Ok"
           /\ token = loaded
           /\ prompts = 0
           /\ ReqsTo("login") = {}

C3_Witness ==
    /\ ReturnedOk("login")
    /\ loaded = <<"t1">>
    /\ IsValid(loaded, serverValid)
    /\ token = loaded
    /\ prompts = 0

\* C4 as stated: when the cache yields no token and lookup-self fails,
\* login() makes exactly one prompt and one login request, and when the
\* login endpoint issued a token it is held in memory and in the cache when
\* login() returns.
C4_OneAttemptAlwaysCached ==
    LookupFailedNoCache
        => /\ prompts = 1
           /\ Cardinality(ReqsTo("login")) = 1
           /\ (reqs[Len(reqs)].ans = "ok" => (token # <<>> /\ CacheHolds(token)))

\* C4 amended: when the cache yields no token and lookup-self fails, login()
\* prompts exactly once and sends at most one login request: none only when
\* reading the password failed, which login() returns as an error; and
\* whenever login() returns Ok the token just issued is held in memory and
\* is the cache's token entry.
C4_OneAttemptCachedOnOk ==
    LookupFailedNoCache
        => /\ prompts = 1
           /\ Cardinality(ReqsTo("login")) <= 1
           /\ (ReqsTo("login") = {} => (ret.res = "Err" /\ ret.err = "RuntimeError"))
           /\ (ret.res = "Ok" =>
                 /\ Cardinality(ReqsTo("login")) = 1
                 /\ reqs[Len(reqs)].ep = "login"
                 /\ reqs[Len(reqs)].ans = "ok"
                 /\ token # <<>>
                 /\ token[1] \in IssuedTokens
                 /\ CacheHolds(token))

C4_Witness ==
    /\ LookupFailedNoCache
    /\ ret.res = "Ok"
    /\ prompts = 1
    /\ Cardinality(ReqsTo("login")) = 1
    /\ token = <<"t2">>
    /\ CacheHolds(token)

\* C5 as stated: logout() with a token loaded from the cache, answered 403,
\* returns Ok with the in-memory token cleared and no token in the cache.
C5_Logout403AlwaysOk ==
    LogoutCached403
        => /\ ret.res = "Ok"
           /\ token = <<>>
           /\ CacheHolds(<<>>)

\* C5 amended: logout() with a token loaded from the cache, answered 403,
\* clears the in-memory token; it returns Ok exactly when its cache write
\* succeeds, and then the cache holds no token; when the write fails it
\* returns that error.
C5_Logout403ClearsToken ==
    LogoutCached403
        => /\ token = <<>>
           /\ wrote # "none"
           /\ (ret.res = "Ok" <=> wrote = "ok")
           /\ (wrote = "ok" => CacheHolds(<<>>))
           /\ (wrote = "failed" => ret.err = "RuntimeError")

C5_Witness ==
    /\ LogoutCached403
    /\ ret.res = "Ok"
    /\ token = <<>>
    /\ file.kind = "object"
    /\ file.data["token"] = JNull

\* C6: search matches case-insensitively for every pattern: a successful
\* search returns every leaf whose name contains the pattern when the case
\* of both is ignored.
C6_SearchIgnoresCase ==
    ReturnedOk("search")
        => \A l \in Leaves(tree) :
             Contains(ToLowercase(LeafName(l)), ToLowercase(snippet))
                 => InSeq(l, ret.paths)

\* C7: when every list call succeeds, search("") returns the full path of
\* every leaf of the tree, at every depth, each exactly once.
C7_EmptyPatternReturnsAllLeaves ==
    (ReturnedOk("search") /\ snippet = <<>>)
        => /\ {ret.paths[i] : i \in 1..Len(ret.paths)} = Leaves(tree)
           /\ Len(ret.paths) = Cardinality(Leaves(tree))

C7_Witness ==
    /\ ReturnedOk("search")
    /\ snippet = <<>>
    /\ tree = TreeDeep
    /\ Len(ret.paths) = 3
    /\ InSeq(<< <<"a">>, <<"b">>, <<"c">> >>, ret.paths)

\* C8: in a traversal (search or export) no path is listed twice, no path
\* of a Key entry is passed to list, and none is put on the frontier.
C8_EachDirListedOnceNoKeyListed ==
    op \in {"search", "export"}
        => /\ \A i, k \in ReqsTo("list") : i # k => reqs[i].path # reqs[k].path
           /\ \A i \in ReqsTo("list") : ~IsLeafString(tree, reqs[i].path)
           /\ \A i \in 1..Len(to_search) : to_search[i] \notin Leaves(tree)
           /\ \A i \in 1..Len(next_to_search) : next_to_search[i] \notin Leaves(tree)

C8_Witness ==
    /\ ReturnedOk("export")
    /\ tree = TreeWide
    /\ Cardinality(ReqsTo("list")) = 4
    /\ \E i \in ReqsTo("list") : reqs[i].path = <<"b", "/", "a">>

\* C9: the export traversal gets no path twice and never a directory; when
\* it completes it has fetched every leaf and written one entry per leaf,
\* carrying that leaf's full path.
C9_ExportFetchesEveryLeafOnce ==
    op = "export"
        => /\ \A i, k \in ReqsTo("get") : i # k => reqs[i].path # reqs[k].path
           /\ \A i \in ReqsTo("get") : IsLeafString(tree, reqs[i].path)
           /\ (ReturnedOk("export") =>
                 /\ {reqs[i].path : i \in ReqsTo("get")}
                        = {PathToString(l) : l \in Leaves(tree)}
                 /\ {ret.xml[i] : i \in 1..Len(ret.xml)}
                        = {PathToString(l) : l \in Leaves(tree)}
                 /\ Len(ret.xml) = Cardinality(Leaves(tree)))

C9_Witness ==
    /\ ReturnedOk("export")
    /\ tree = TreeAB
    /\ InSeq(<<"a", "/", "b">>, ret.xml)
    /\ InSeq(<<"c">>, ret.xml)
    /\ Cardinality(ReqsTo("get")) = 2

\* C10: every request that carries the username (login, list, get) carries
\* the lower-cased form of the configured username.
C10_UsernameLowercased ==
    \A i \in 1..Len(reqs) :
        reqs[i].ep \in {"login", "list", "get"}
            => reqs[i].user = ConfigUsername(username)

-----------------------------------------------------------------------------
(* Properties, continued *)

LastReq == reqs[Len(reqs)]

\* All but the last component of a path.
Parent(p) == SubSeq(p, 1, Len(p) - 1)

\* C11: a request the client builds bears a credential exactly when the
\* session holds a token (the credential is that token), and no request
\* ever bears an empty token.
C11_BearerIffTokenNeverEmpty ==
    /\ \A i \in 1..Len(reqs) : reqs[i].bearer # <<>> => reqs[i].bearer[1] # ""
    /\ op \in {"search", "export", "list", "get"}
           => \A i \in 1..Len(reqs) : reqs[i].bearer = token
    /\ pc \in {"login_lookup", "logout_revoke"} => LastReq.bearer = token

\* C12: list and get surface a body carrying errors[0] as a VaultError.
C12_ErrorsPayloadIsVaultError ==
    ((Returned("list") \/ Returned("get")) /\ LastReq.ans = "errors")
        => (ret.res = "Err" /\ ret.err = "VaultError")

\* The login just returned was called without a token in memory, and its
\* login request failed in transport, with an errors payload or with an
\* undecodable body.
InteractiveLoginFailed ==
    /\ Returned("login")
    /\ token0 = <<>>
    /\ Len(reqs) >= 1
    /\ LastReq.ep = "login"
    /\ LastReq.ans \in {"netfail", "errors", "badjson"}

\* C13: when the interactive login attempt of a login() fails, login()
\* returns that error after one prompt and exactly one login request, the
\* last request sent; the session is left without a token and the cache
\* file as it was.
C13_FailedLoginIsTerminal ==
    InteractiveLoginFailed
        => /\ ret.res = "Err"
           /\ ret.err = (CASE LastReq.ans = "netfail" -> "HTTPError"
                           [] LastReq.ans = "errors" -> "VaultError"
                           [] OTHER -> "RuntimeError")
           /\ prompts = 1
           /\ Cardinality(ReqsTo("login")) = 1
           /\ Len(reqs) = 2
           /\ token = <<>>
           /\ file = file0

C13_Witness ==
    /\ InteractiveLoginFailed
    /\ LastReq.ans = "errors"
    /\ ret.err = "VaultError"
    /\ file0.kind = "object"
    /\ prompts = 1

\* C14: after a logout() that returns Ok, whatever the state it was called
\* in, the session holds no token and the cache holds none.
C14_LogoutOkClearsEverything ==
    ReturnedOk("logout") => (token = <<>> /\ CacheHolds(<<>>))

\* C15: for a listing response whose keys are all strings, list returns
\* one entry per key, in order: a key ending in the separator becomes Dir
\* with that one separator stripped, any other key becomes Key unchanged.
C15_ListPartitionsWithoutLoss ==
    ReturnedOk("list")
        => /\ Len(ret.entries) = Len(ret.raw)
           /\ \A i \in 1..Len(ret.raw) :
                IF ret.raw[i] # <<>> /\ ret.raw[i][Len(ret.raw[i])] = "/"
                THEN /\ ret.entries[i].tag = "Dir"
                     /\ ret.entries[i].name \o <<"/">> = ret.raw[i]
                ELSE /\ ret.entries[i].tag = "Key"
                     /\ ret.entries[i].name = ret.raw[i]
           /\ Cardinality({i \in 1..Len(ret.entries) : ret.entries[i].tag = "Dir"})
                + Cardinality({i \in 1..Len(ret.entries) : ret.entries[i].tag = "Key"})
                = Len(ret.raw)

C15_Witness ==
    /\ ReturnedOk("list")
    /\ ret.raw = << <<"a", "/", "/">>, <<"a">> >>
    /\ ret.entries[1] = [tag |-> "Dir", name |-> <<"a", "/">>]
    /\ ret.entries[2] = [tag |-> "Key", name |-> <<"a">>]

\* C16: after set("token", None) succeeded (the cache write of a logout),
\* the stored object has no entry for the key, get of the key yields no
\* value and no error, and the other keys are as they were.
C16_SetNoneRemovesKey ==
    (Returned("logout") /\ wrote = "ok")
        => /\ file.kind = "object"
           /\ file.data["token"] = JAbsent
           /\ RuntimeInfoGet(file, "token") = [res |-> "Ok", val |-> <<>>]
           /\ \A k \in CacheKeys \ {"token"} :
                file.data[k] = (IF file0.kind = "object" THEN file0.data[k] ELSE JAbsent)

\* C17: search returns only full paths of leaves whose own name contains
\* the pattern, case ignored; on the tree {a/b, c}, search("b") returns
\* exactly [a/b].
C17_SearchReturnsOnlyMatchingLeaves ==
    ReturnedOk("search")
        => /\ \A i \in 1..Len(ret.paths) :
                /\ ret.paths[i] \in Leaves(tree)
                /\ ret.paths[i] \notin Dirs(tree)
                /\ Contains(ToLowercase(LeafName(ret.paths[i])), ToLowercase(snippet))
           /\ (tree = TreeAB /\ snippet = <<"b">>)
                => ret.paths = << << <<"a">>, <<"b">> >> >>

C17_Witness ==
    /\ ReturnedOk("search")
    /\ tree = TreeAB
    /\ snippet = <<"b">>
    /\ ret.paths = << << <<"a">>, <<"b">> >> >>

\* C18: a logout() with a token whose revoke-self is answered by a status
\* that is neither 2xx nor 403, or cannot be sent, returns an error and
\* leaves the in-memory token and the cache's token entry as they were.
C18_LogoutOtherStatusIsError ==
    (Returned("logout") /\ reqs # <<>> /\ LastReq.ans \notin {"200", "403"})
        => /\ ret.res = "Err"
           /\ token = token0
           /\ GetRuntimeInfo(file, "token") = GetRuntimeInfo(file0, "token")

\* C19: when no token can be loaded from the cache, login() sends no
\* lookup-self or other request before the password prompt: every request
\* of that login() is a login request, and it has prompted when it returns.
C19_NoCacheGoesStraightToPrompt ==
    (op = "login" /\ loaded = <<>>)
        => /\ \A i \in 1..Len(reqs) : reqs[i].ep = "login"
           /\ (pc = "idle" => prompts = 1)

\* C20: every path a traversal builds with pushed is its parent's
\* components followed by one listed name, and the parent stays what it
\* was: each path of the next frontier extends a path already listed in
\* the frontier by a directory of its listing, each match extends one by a
\* key of its listing, and the frontier holds directories of the tree.
C20_PushedExtendsParentOnly ==
    op \in {"search", "export"}
        => /\ \A i \in 1..Len(next_to_search) :
                LET p == next_to_search[i]
                IN  /\ Len(p) >= 1
                    /\ InSeq(Parent(p), SubSeq(to_search, 1, idx))
                    /\ InSeq(LeafName(p) \o <<"/">>, ListKeys(tree, Parent(p)))
           /\ \A i \in 1..Len(to_search) : to_search[i] \in Dirs(tree)
           /\ \A i \in 1..Len(result) :
                /\ Len(result[i]) >= 1
                /\ Parent(result[i]) \in Dirs(tree)
                /\ InSeq(LeafName(result[i]), ListKeys(tree, Parent(result[i])))
           /\ \A i \in 1..Len(writer) : IsLeafString(tree, writer[i])

C20_Witness ==
    /\ op = "search"
    /\ pc = "search_list"
    /\ to_search = << << <<"a">>, <<"b">> >>, << <<"a">>, <<"c">> >> >>
    /\ idx = 2
    /\ result = << << <<"a">>, <<"b">>, <<"c">> >> >>

\* C21: whenever login() returns Ok the session holds a token.
C21_LoginOkHoldsToken ==
    ReturnedOk("login") => token # <<>>

\* C22: a login response that decodes but carries neither errors[0] nor
\* auth.client_token makes the login operation return an error, with the
\* in-memory token and the cache as they were.
C22_MalformedLoginIsError ==
    (reqs # <<>> /\ LastReq.ep = "login" /\ LastReq.ans = "notoken")
        => /\ pc = "idle"
           /\ ret.res = "Err"
           /\ ret.err = "RuntimeError"
           /\ token = token0
           /\ file = file0

\* C23: at every return from login(), loginPromptPassword() or logout()
\* the token a cached-token load would find is the in-memory token.
C23_CacheAgreesWithMemory ==
    (Returned("login") \/ Returned("loginPromptPassword") \/ Returned("logout"))
        => GetRuntimeInfo(file, "token") = token

\* A traversal in which some list or get call was answered by a failure.
SomeCallFailed == \E i \in 1..Len(reqs) : reqs[i].ans # "ok"

\* The states in which a traversal is suspended with a request in flight.
WaitStates == {"search_wait", "export_list_wait", "export_get_wait"}

\* C24: when a list call of search, or a list or get call of the export
\* traversal, fails, the operation returns that call's error at once: the
\* failed call is the last request sent, no call was made twice, and no
\* paths or entries are returned.  A traversal that has not returned has
\* no failed call behind it: every call but the one in flight succeeded.
C24_TraversalFailsFast ==
    /\ (op \in {"search", "export"} /\ pc # "idle")
           => \A i \in 1..Len(reqs) :
                reqs[i].ans = (IF i = Len(reqs) /\ pc \in WaitStates THEN "pending"
                               ELSE "ok")
    /\ ((Returned("search") \/ Returned("export")) /\ SomeCallFailed)
           => /\ ret.res = "Err"
              /\ ret.err = (IF LastReq.ep = "get" THEN GetErrKind(LastReq.ans)
                            ELSE ErrKind(LastReq.ans))
              /\ \A i \in 1..(Len(reqs) - 1) : reqs[i].ans = "ok"
              /\ \A i, k \in 1..Len(reqs) :
                    (reqs[i].ep = reqs[k].ep /\ reqs[i].path = reqs[k].path) => i = k
              /\ ret.paths = <<>>
              /\ ret.xml = <<>>
    /\ (ReturnedOk("search") \/ ReturnedOk("export")) => ~SomeCallFailed

\* The depth of the deepest directory of a tree; the root has depth 0.
MaxDirDepth(t) ==
    CHOOSE n \in 0..3 : /\ \E d \in Dirs(t) : Len(d) = n
                        /\ \A d \in Dirs(t) : Len(d) <= n

\* The paths of the requests sent to an endpoint.
PathsTo(ep) == {reqs[i].path : i \in ReqsTo(ep)}

\* A running search lists a non-empty frontier of the directories at depth
\* rounds - 1; a search that returned Ok made one round per directory
\* level, listed every directory once, and its last call listed a
\* directory of the deepest level.
SearchRoundsByDepth ==
    /\ (op = "search" /\ pc \in {"search_list", "search_wait"})
           => /\ to_search # <<>>
              /\ idx \in 1..Len(to_search)
              /\ \A i \in 1..Len(to_search) : Len(to_search[i]) = rounds - 1
    /\ ReturnedOk("search")
           => /\ rounds = MaxDirDepth(tree) + 1
              /\ PathsTo("list") = {PathToString(d) : d \in Dirs(tree)}
              /\ Len(reqs) = Cardinality(Dirs(tree))
              /\ \E d \in Dirs(tree) : /\ Len(d) = MaxDirDepth(tree)
                                        /\ LastReq.path = PathToString(d)

\* C25: a search always returns, and when every list call succeeded it
\* returns exactly after the directories of the deepest level were listed,
\* having made (depth of the deepest directory) + 1 frontier rounds.
C25_SearchTerminatesAtEmptyFrontier ==
    /\ [](SearchRoundsByDepth)
    /\ ((pc \in {"search_list", "search_wait"}) ~> (pc = "idle"))

C25_Witness ==
    /\ ReturnedOk("search")
    /\ tree = TreeDeep
    /\ rounds = 3
    /\ Len(reqs) = 3

\* The file at runtimeInfoPath(), now and when the operation was invoked.
MarkerStore == InfoFileAt(infoPath, file, infoFile)
MarkerStore0 == InfoFileAt(infoPath, file0, info0)

\* The marker exportPasswords found parses to an instant less than the
\* period before now.
ExportWasSkippable ==
    /\ infoPath # "none"
    /\ MarkerStore0.kind = "object"
    /\ MarkerStore0.data["last_xml_export_time"].tag = "str"
    /\ ParseTime(MarkerStore0.data["last_xml_export_time"].val) # <<>>
    /\ now - ParseTime(MarkerStore0.data["last_xml_export_time"].val)[1]
           < XmlExportPeriod

\* The runtime files are as the operation found them.
FilesUntouched == file = file0 /\ infoFile = info0

\* Every directory was listed and every leaf fetched, all successfully.
WalkComplete ==
    /\ \A i \in 1..Len(reqs) : reqs[i].ans = "ok"
    /\ PathsTo("list") = {PathToString(d) : d \in Dirs(tree)}
    /\ PathsTo("get") = {PathToString(l) : l \in Leaves(tree)}

\* C26: exportPasswords touches a runtime file only after the whole
\* traversal and the encryption succeeded, and then writes now as the
\* marker into the file at runtimeInfoPath(), no other file; a skipped
\* export returns Ok having sent no request and leaves the files as they
\* were, and so does a call that fails at any step up to and including
\* the encryption, and one that ends in a panic.
C26_MarkerWrittenLast ==
    op = "exportPasswords"
        => /\ (~FilesUntouched \/ wrote # "none")
                => (pc \in {"idle", "panic"} /\ WalkComplete /\ gpg = "ok")
           /\ wrote = "panic" => pc = "panic"
           /\ pc = "panic" => FilesUntouched
           /\ wrote = "ok"
                => /\ ret.res = "Ok"
                   /\ MarkerStore.kind = "object"
                   /\ MarkerStore.data["last_xml_export_time"] = JStr(ToRfc3339(now))
                   /\ MarkerStore.data["token"] =
                        (IF MarkerStore0.kind = "object" THEN MarkerStore0.data["token"]
                         ELSE JAbsent)
           /\ infoPath # "cwd" => file = file0
           /\ infoPath # "other" => infoFile = info0
           /\ (pc = "idle" /\ ExportWasSkippable)
                => (ret.res = "Ok" /\ reqs = <<>> /\ FilesUntouched /\ gpg = "none")
           /\ (pc = "idle" /\ ret.res = "Err" /\ wrote = "none") => FilesUntouched
           /\ (pc = "idle" /\ ret.res = "Ok" /\ ~ExportWasSkippable) => wrote = "ok"

C26_Witness ==
    /\ ReturnedOk("exportPasswords")
    /\ tree = TreeAB
    /\ infoPath = "other"
    /\ info0.kind = "object"
    /\ info0.data["last_xml_export_time"] = JStr(ToRfc3339(0))
    /\ now = 86400
    /\ infoFile.data["last_xml_export_time"] = JStr(ToRfc3339(86400))
    /\ file = file0
    /\ file.kind = "object"
    /\ Len(reqs) = 4

=============================================================================
